---- MODULE Spec2Model ----
(***************************************************************************)
(* Model of src/cube.py: the RubiksCube class (facelet grids, the twelve   *)
(* face turns, execute_move, scramble, the solver front end, the string    *)
(* encodings) and the "Update Cube" handler of main().                     *)
(*                                                                         *)
(* Python strings are sequences of one-character strings, so a move token  *)
(* such as R' is <<"R", "'">> and a face string is a sequence of 9 cells.  *)
(* A cube is a function faces[face][row][col] with rows and columns 0..2,  *)
(* as in the source.                                                       *)
(***************************************************************************)
EXTENDS Integers, Sequences, FiniteSets, TLC

VARIABLES
  faces,               \* self.faces of the cube: face -> row -> column -> cell
  start,               \* the cube before the first call
  hist,                \* the calls that were made on the cube since start, in order
  last,                \* the latest call: cube before, argument, result, error
  KOCIEMBA_AVAILABLE,  \* the module-level flag set by `import kociemba`
  seq,                 \* the token list that is replayed over and over
  pos,                 \* the number of tokens of seq replayed so far
  session,             \* st.session_state besides the cube: scramble_moves, solution_moves, solving
  heap                 \* the list objects of the session cube and of the animation's temp_cube

vars == <<faces, start, hist, last, KOCIEMBA_AVAILABLE, seq, pos, session, heap>>

(***************************************************************************)
(* Bounds of the model.                                                    *)
(***************************************************************************)
MaxMoves == 2
MaxScramble == 2
MaxSteps == 24
MaxSolutionLen == 1
SolveDepth == 1
MaxEdits == 1

\* The number of moves the "Scramble" button asks for: cube.scramble(25).
ScrambleCount == 25

(***************************************************************************)
(* Cube state                                                              *)
(***************************************************************************)
FaceNames == {"U", "D", "F", "B", "L", "R"}
Idx == 0..2

\* COLORS / COLOR_NAMES keys: the six recognised colour tags.
COLORS == {"W", "Y", "R", "O", "B", "G"}

\* A 3x3 grid filled with one colour: [[c for _ in range(3)] for _ in range(3)].
Uniform(c) == [i \in Idx |-> [j \in Idx |-> c]]

\* RubiksCube.__init__: the solved cube.
SolvedCube ==
  [f \in FaceNames |->
     CASE f = "U" -> Uniform("W")
       [] f = "D" -> Uniform("Y")
       [] f = "F" -> Uniform("R")
       [] f = "B" -> Uniform("O")
       [] f = "L" -> Uniform("B")
       [] f = "R" -> Uniform("G")]

\* self.faces[face][i][j] = v
Put(f, face, i, j, v) == [f EXCEPT ![face][i][j] = v]

\* self.faces[face][i] = row   (row is a fresh list of three cells)
PutRow(f, face, i, row) == [f EXCEPT ![face][i] = row]

\* rotate_face_clockwise that transposes the grid: new[i][j] = old[j][i].
rotate_face_transpose(f, face) ==
  [f EXCEPT ![face] = [i \in Idx |-> [j \in Idx |-> f[face][j][i]]]]

\* rotate_face_clockwise: new[i][j] = old[2-j][i].
rotate_face_clockwise(f, face) ==
  [f EXCEPT ![face] = [i \in Idx |-> [j \in Idx |-> f[face][2 - j][i]]]]

\* rotate_face_counterclockwise: three clockwise rotations.
rotate_face_counterclockwise(f, face) ==
  rotate_face_clockwise(rotate_face_clockwise(rotate_face_clockwise(f, face), face), face)

(***************************************************************************)
(* The six clockwise face turns.  Each loop body is the source's sequence  *)
(* of assignments, applied for i = 0, 1, 2 in order.                       *)
(***************************************************************************)
move_R_body(f, temp, i) ==
  LET f1 == Put(f, "U", i, 2, f["F"][i][2])
      f2 == Put(f1, "F", i, 2, f1["D"][i][2])
      f3 == Put(f2, "D", i, 2, f2["B"][2 - i][0])
  IN  Put(f3, "B", 2 - i, 0, temp[i])

\* move_R without the saved strip: the last assignment reads U after it was overwritten.
move_R_no_temp(f) ==
  LET g == rotate_face_clockwise(f, "R")
      body(h, i) ==
        LET f1 == Put(h, "U", i, 2, h["F"][i][2])
            f2 == Put(f1, "F", i, 2, f1["D"][i][2])
            f3 == Put(f2, "D", i, 2, f2["B"][2 - i][0])
        IN  Put(f3, "B", 2 - i, 0, f3["U"][i][2])
  IN  body(body(body(g, 0), 1), 2)

move_R(f) ==
  LET g == rotate_face_clockwise(f, "R")
      temp == [i \in Idx |-> g["U"][i][2]]
  IN  move_R_body(move_R_body(move_R_body(g, temp, 0), temp, 1), temp, 2)

\* move_U that cycles the four top rows but forgets to rotate the Up face itself.
move_U_no_rotation(f) ==
  LET temp == f["F"][0]
      f1 == PutRow(f, "F", 0, f["R"][0])
      f2 == PutRow(f1, "R", 0, f1["B"][0])
      f3 == PutRow(f2, "B", 0, f2["L"][0])
  IN  PutRow(f3, "L", 0, temp)

move_U(f) ==
  LET g == rotate_face_clockwise(f, "U")
      temp == g["F"][0]
      f1 == PutRow(g, "F", 0, g["R"][0])
      f2 == PutRow(f1, "R", 0, f1["B"][0])
      f3 == PutRow(f2, "B", 0, f2["L"][0])
  IN  PutRow(f3, "L", 0, temp)

move_F_body(f, temp, i) ==
  LET f1 == Put(f, "U", 2, i, f["L"][2 - i][2])
      f2 == Put(f1, "L", 2 - i, 2, f1["D"][0][2 - i])
      f3 == Put(f2, "D", 0, 2 - i, f2["R"][i][0])
  IN  Put(f3, "R", i, 0, temp[i])

move_F(f) ==
  LET g == rotate_face_clockwise(f, "F")
      temp == g["U"][2]
  IN  move_F_body(move_F_body(move_F_body(g, temp, 0), temp, 1), temp, 2)

move_L_body(f, temp, i) ==
  LET f1 == Put(f, "U", i, 0, f["B"][2 - i][2])
      f2 == Put(f1, "B", 2 - i, 2, f1["D"][i][0])
      f3 == Put(f2, "D", i, 0, f2["F"][i][0])
  IN  Put(f3, "F", i, 0, temp[i])

\* move_L that reads the Back column top-down where the source reads it bottom-up.
move_L_unflipped(f) ==
  LET g == rotate_face_clockwise(f, "L")
      temp == [i \in Idx |-> g["U"][i][0]]
      body(h, i) ==
        LET f1 == Put(h, "U", i, 0, h["B"][i][2])
            f2 == Put(f1, "B", 2 - i, 2, f1["D"][i][0])
            f3 == Put(f2, "D", i, 0, f2["F"][i][0])
        IN  Put(f3, "F", i, 0, temp[i])
  IN  body(body(body(g, 0), 1), 2)

move_L(f) ==
  LET g == rotate_face_clockwise(f, "L")
      temp == [i \in Idx |-> g["U"][i][0]]
  IN  move_L_body(move_L_body(move_L_body(g, temp, 0), temp, 1), temp, 2)

\* move_D that cycles the top rows of the side faces, the rows move_U cycles.
move_D_top_row(f) ==
  LET g == rotate_face_clockwise(f, "D")
      temp == g["F"][0]
      f1 == PutRow(g, "F", 0, g["L"][0])
      f2 == PutRow(f1, "L", 0, f1["B"][0])
      f3 == PutRow(f2, "B", 0, f2["R"][0])
  IN  PutRow(f3, "R", 0, temp)

move_D(f) ==
  LET g == rotate_face_clockwise(f, "D")
      temp == g["F"][2]
      f1 == PutRow(g, "F", 2, g["L"][2])
      f2 == PutRow(f1, "L", 2, f1["B"][2])
      f3 == PutRow(f2, "B", 2, f2["R"][2])
  IN  PutRow(f3, "R", 2, temp)

move_B_body(f, temp, i) ==
  LET f1 == Put(f, "U", 0, i, f["R"][i][2])
      f2 == Put(f1, "R", i, 2, f1["D"][2][2 - i])
      f3 == Put(f2, "D", 2, 2 - i, f2["L"][2 - i][0])
  IN  Put(f3, "L", 2 - i, 0, temp[i])

\* move_B that takes the middle row of the Up face for its top row.
move_B_middle_row(f) ==
  LET g == rotate_face_clockwise(f, "B")
      temp == g["U"][1]
      body(h, i) ==
        LET f1 == Put(h, "U", 1, i, h["R"][i][2])
            f2 == Put(f1, "R", i, 2, f1["D"][2][2 - i])
            f3 == Put(f2, "D", 2, 2 - i, f2["L"][2 - i][0])
        IN  Put(f3, "L", 2 - i, 0, temp[i])
  IN  body(body(body(g, 0), 1), 2)

move_B(f) ==
  LET g == rotate_face_clockwise(f, "B")
      temp == g["U"][0]
  IN  move_B_body(move_B_body(move_B_body(g, temp, 0), temp, 1), temp, 2)

(***************************************************************************)
(* Counter-clockwise turns: for _ in range(3): self.move_X()               *)
(***************************************************************************)
\* move_R_prime with range(2) in place of range(3).
move_R_prime_twice(f) == move_R(move_R(f))

\* move_F_prime that turns the Front face clockwise once.
move_F_prime_once(f) == move_F(f)

move_R_prime(f) == move_R(move_R(move_R(f)))
move_U_prime(f) == move_U(move_U(move_U(f)))
move_F_prime(f) == move_F(move_F(move_F(f)))
move_L_prime(f) == move_L(move_L(move_L(f)))
move_D_prime(f) == move_D(move_D(move_D(f)))
move_B_prime(f) == move_B(move_B(move_B(f)))

(***************************************************************************)
(* Move tokens                                                             *)
(***************************************************************************)
\* The list `moves` of scramble(): the 18 tokens, in the source's order.
moves ==
  << <<"R">>, <<"R", "'">>, <<"R", "2">>, <<"U">>, <<"U", "'">>, <<"U", "2">>,
     <<"F">>, <<"F", "'">>, <<"F", "2">>, <<"L">>, <<"L", "'">>, <<"L", "2">>,
     <<"D">>, <<"D", "'">>, <<"D", "2">>, <<"B">>, <<"B", "'">>, <<"B", "2">> >>

\* The keys of execute_move's move_map.
move_map_keys ==
  { <<"R">>, <<"R", "'">>, <<"U">>, <<"U", "'">>, <<"F">>, <<"F", "'">>,
    <<"L">>, <<"L", "'">>, <<"D">>, <<"D", "'">>, <<"B">>, <<"B", "'">>,
    <<"R", "2">>, <<"U", "2">>, <<"F", "2">>, <<"L", "2">>, <<"D", "2">>, <<"B", "2">> }

\* Strings that are no key of move_map: "", "X", "R3", "r".
BadTokens == { <<>>, <<"X">>, <<"R", "3">>, <<"r">> }

\* execute_move that falls back on the first character of a token that is no key
\* of move_map, so that R3 turns the Right face.
execute_move_first_char(f, move) ==
  CASE move = <<"R">>      -> move_R(f)
    [] move = <<"R", "'">> -> move_R_prime(f)
    [] move = <<"U">>      -> move_U(f)
    [] move = <<"U", "'">> -> move_U_prime(f)
    [] move = <<"F">>      -> move_F(f)
    [] move = <<"F", "'">> -> move_F_prime(f)
    [] move = <<"L">>      -> move_L(f)
    [] move = <<"L", "'">> -> move_L_prime(f)
    [] move = <<"D">>      -> move_D(f)
    [] move = <<"D", "'">> -> move_D_prime(f)
    [] move = <<"B">>      -> move_B(f)
    [] move = <<"B", "'">> -> move_B_prime(f)
    [] move = <<"R", "2">> -> move_R(move_R(f))
    [] move = <<"U", "2">> -> move_U(move_U(f))
    [] move = <<"F", "2">> -> move_F(move_F(f))
    [] move = <<"L", "2">> -> move_L(move_L(f))
    [] move = <<"D", "2">> -> move_D(move_D(f))
    [] move = <<"B", "2">> -> move_B(move_B(f))
    [] OTHER               -> IF move # <<>> /\ move[1] = "R" THEN move_R(f) ELSE f

\* execute_move: dispatch through move_map; a token that is no key does nothing.
execute_move(f, move) ==
  CASE move = <<"R">>      -> move_R(f)
    [] move = <<"R", "'">> -> move_R_prime(f)
    [] move = <<"U">>      -> move_U(f)
    [] move = <<"U", "'">> -> move_U_prime(f)
    [] move = <<"F">>      -> move_F(f)
    [] move = <<"F", "'">> -> move_F_prime(f)
    [] move = <<"L">>      -> move_L(f)
    [] move = <<"L", "'">> -> move_L_prime(f)
    [] move = <<"D">>      -> move_D(f)
    [] move = <<"D", "'">> -> move_D_prime(f)
    [] move = <<"B">>      -> move_B(f)
    [] move = <<"B", "'">> -> move_B_prime(f)
    [] move = <<"R", "2">> -> move_R(move_R(f))
    [] move = <<"U", "2">> -> move_U(move_U(f))
    [] move = <<"F", "2">> -> move_F(move_F(f))
    [] move = <<"L", "2">> -> move_L(move_L(f))
    [] move = <<"D", "2">> -> move_D(move_D(f))
    [] move = <<"B", "2">> -> move_B(move_B(f))
    [] OTHER               -> f

\* is_solved: every cell of every face equals the face's solved colour.
solved_faces ==
  [f \in FaceNames |->
     CASE f = "U" -> "W" [] f = "D" -> "Y" [] f = "F" -> "R"
       [] f = "B" -> "O" [] f = "L" -> "B" [] f = "R" -> "G"]

\* is_solved with `return True` inside the loop over the faces: only the first
\* face, Up, is examined.
is_solved_first_face(f) ==
  \A i \in Idx : \A j \in Idx : f["U"][i][j] = solved_faces["U"]

is_solved(f) ==
  \A face \in FaceNames : \A i \in Idx : \A j \in Idx : f[face][i][j] = solved_faces[face]


(***************************************************************************)
(* Face strings and the solver's 54-symbol string                          *)
(***************************************************************************)
\* ''.join(row) for one row of single-character cells.
JoinRow(row) == <<row[0], row[1], row[2]>>

\* get_face_string with the rows taken column-wise.
get_face_string_columns(f, face) ==
  LET g == [i \in Idx |-> [j \in Idx |-> f[face][j][i]]]
  IN  JoinRow(g[0]) \o JoinRow(g[1]) \o JoinRow(g[2])

\* get_face_string: the three rows joined, top row first.
get_face_string(f, face) ==
  JoinRow(f[face][0]) \o JoinRow(f[face][1]) \o JoinRow(f[face][2])

\* KOCIEMBA_COLOR_MAP
KOCIEMBA_COLOR_MAP ==
  [c \in COLORS |->
     CASE c = "W" -> "U" [] c = "R" -> "R" [] c = "G" -> "F"
       [] c = "Y" -> "D" [] c = "O" -> "L" [] c = "B" -> "B"]

\* KOCIEMBA_COLOR_MAP.items(), in the order the dict literal lists them.
KOCIEMBA_COLOR_MAP_items ==
  << <<"W", "U">>, <<"R", "R">>, <<"G", "F">>, <<"Y", "D">>, <<"O", "L">>, <<"B", "B">> >>

\* {v: k for k, v in the first n items}: a later item replaces an earlier one
\* with the same v.
RECURSIVE reverse_items(_)
reverse_items(n) ==
  IF n = 0 THEN [x \in {} |-> x]
  ELSE (KOCIEMBA_COLOR_MAP_items[n][2] :> KOCIEMBA_COLOR_MAP_items[n][1])
         @@ reverse_items(n - 1)

\* REVERSE_KOCIEMBA_MAP
REVERSE_KOCIEMBA_MAP == reverse_items(Len(KOCIEMBA_COLOR_MAP_items))

\* KOCIEMBA_COLOR_MAP.get(color, color)
map_get(color) ==
  IF color \in DOMAIN KOCIEMBA_COLOR_MAP THEN KOCIEMBA_COLOR_MAP[color] ELSE color

\* face_order of get_kociemba_string
face_order == <<"U", "R", "F", "D", "L", "B">>

\* The inner loop of get_kociemba_string: one face string translated symbol by symbol.
translate(face_string) == [k \in 1..Len(face_string) |-> map_get(face_string[k])]

\* The outer loop of get_kociemba_string over the first n faces of face_order.
RECURSIVE kociemba_loop(_, _)
kociemba_loop(f, n) ==
  IF n = 0 THEN <<>>
  ELSE kociemba_loop(f, n - 1) \o translate(get_face_string(f, face_order[n]))

\* Python's None, and a returned string.
None == [is_none |-> TRUE, value |-> <<>>]
Some(v) == [is_none |-> FALSE, value |-> v]

\* get_kociemba_string: None when the solver library is not importable.
get_kociemba_string(f, available) ==
  IF ~available THEN None ELSE Some(kociemba_loop(f, Len(face_order)))

(***************************************************************************)
(* Starting cubes                                                          *)
(***************************************************************************)
\* A cube whose six faces hold the given 9-character strings, row-major.
CubeFromStrings(strs) ==
  [face \in FaceNames |-> [i \in Idx |-> [j \in Idx |-> strs[face][3 * i + j + 1]]]]

\* 54 pairwise different cells: every cell of the cube can be told apart.
LabelCube ==
  CubeFromStrings(
    [U |-> <<"a", "b", "c", "d", "e", "f", "g", "h", "i">>,
     D |-> <<"j", "k", "l", "m", "n", "o", "p", "q", "r">>,
     F |-> <<"s", "t", "u", "v", "w", "x", "y", "z", "A">>,
     B |-> <<"B", "C", "D", "E", "F", "G", "H", "I", "J">>,
     L |-> <<"K", "L", "M", "N", "O", "P", "Q", "R", "S">>,
     R |-> <<"T", "U", "V", "W", "X", "Y", "Z", "0", "1">>])

\* Six colours in an arrangement no real cube has.
MixedCube ==
  CubeFromStrings(
    [U |-> <<"W", "Y", "R", "O", "B", "G", "W", "Y", "R">>,
     D |-> <<"Y", "Y", "Y", "Y", "W", "Y", "Y", "Y", "Y">>,
     F |-> <<"R", "G", "R", "G", "R", "G", "R", "G", "R">>,
     B |-> <<"O", "O", "O", "B", "B", "B", "G", "G", "G">>,
     L |-> <<"B", "W", "B", "W", "B", "W", "B", "W", "B">>,
     R |-> <<"G", "O", "R", "G", "O", "R", "G", "O", "R">>])

StartStates == {SolvedCube, LabelCube, MixedCube}

(***************************************************************************)
(* Calls on the cube.  `last` records the latest call: the cube before it, *)
(* its argument, its return value, and in err the exception it raised or   *)
(* the error it reported with st.error ("none" when there was none).       *)
(***************************************************************************)
Call(op, pre, arg, ret, err) ==
  [op |-> op, pre |-> pre, arg |-> arg, ret |-> ret, err |-> err]

NoCall(f) == Call("none", f, <<>>, <<>>, "none")

\* No list object is tracked: the cube is used through its cell values only.
NoHeap == [rows |-> <<>>, grids |-> <<>>, cube |-> [live |-> <<>>, temp |-> <<>>]]

\* st.session_state as main() initialises it; the cube itself is `faces`.
NewSession == [scramble_moves |-> <<>>, solution_moves |-> <<>>, solving |-> FALSE]

\* cube.execute_move(move), for any string `move`.
ExecuteMove ==
  /\ Len(hist) < MaxMoves
  /\ \E move \in move_map_keys \cup BadTokens :
       /\ faces' = execute_move(faces, move)
       /\ hist' = Append(hist, move)
       /\ last' = Call("execute_move", faces, move, <<>>, "none")
  /\ UNCHANGED <<start, KOCIEMBA_AVAILABLE, seq, pos, session, heap>>

\* The loop of scramble(): draws[k] is the k-th value of random.choice(moves).
\* Appends before it executes, and executes a different token than it records.
RECURSIVE scramble_loop_shifted(_, _, _, _)
scramble_loop_shifted(f, scramble_moves, draws, k) ==
  IF k > Len(draws) THEN [faces |-> f, scramble_moves |-> scramble_moves]
  ELSE scramble_loop_shifted(execute_move(f, draws[1]),
                             Append(scramble_moves, draws[k]), draws, k + 1)

RECURSIVE scramble_loop(_, _, _, _)
scramble_loop(f, scramble_moves, draws, k) ==
  IF k > Len(draws) THEN [faces |-> f, scramble_moves |-> scramble_moves]
  ELSE CHOOSE r \in
         {scramble_loop(g, Append(scramble_moves, draws[k]), draws, k + 1) :
            g \in {execute_move(f, draws[k])}} : TRUE

\* All outcomes of num_moves draws of random.choice(moves).
Draws(num_moves) == [1..num_moves -> {moves[k] : k \in 1..Len(moves)}]

\* cube.scramble(num_moves)
Scramble ==
  \E num_moves \in 0..MaxScramble :
    /\ Len(hist) + num_moves <= MaxMoves
    /\ \E draws \in Draws(num_moves) :
         LET r == scramble_loop(faces, <<>>, draws, 1)
         IN  /\ faces' = r.faces
             /\ hist' = hist \o draws
             /\ last' = Call("scramble", faces, num_moves, r.scramble_moves, "none")
    /\ UNCHANGED <<start, KOCIEMBA_AVAILABLE, seq, pos, session, heap>>

InitMoves ==
  /\ start \in StartStates
  /\ faces = start
  /\ hist = <<>>
  /\ last = NoCall(start)
  /\ KOCIEMBA_AVAILABLE = TRUE
  /\ seq = <<>>
  /\ pos = 0
  /\ session = NewSession
  /\ heap = NoHeap

NextMoves == ExecuteMove \/ Scramble

\* Moves and scrambles applied to a starting cube.
Spec == InitMoves /\ [][NextMoves]_vars

(***************************************************************************)
(* The two face rotations called on their own                              *)
(***************************************************************************)
\* cube.rotate_face_clockwise(face)
RotateFaceClockwise ==
  /\ Len(hist) < MaxMoves
  /\ \E face \in FaceNames :
       /\ faces' = rotate_face_clockwise(faces, face)
       /\ hist' = Append(hist, <<"cw", face>>)
       /\ last' = Call("rotate_face_clockwise", faces, face, <<>>, "none")
  /\ UNCHANGED <<start, KOCIEMBA_AVAILABLE, seq, pos, session, heap>>

\* cube.rotate_face_counterclockwise(face)
RotateFaceCounterclockwise ==
  /\ Len(hist) < MaxMoves
  /\ \E face \in FaceNames :
       /\ faces' = rotate_face_counterclockwise(faces, face)
       /\ hist' = Append(hist, <<"ccw", face>>)
       /\ last' = Call("rotate_face_counterclockwise", faces, face, <<>>, "none")
  /\ UNCHANGED <<start, KOCIEMBA_AVAILABLE, seq, pos, session, heap>>

NextRotate == RotateFaceClockwise \/ RotateFaceCounterclockwise

SpecRotate == InitMoves /\ [][NextRotate]_vars

(***************************************************************************)
(* A token list applied over and over: token 1, 2, ..., then token 1 again.*)
(* pos counts the execute_move calls made so far.                          *)
(***************************************************************************)
\* The token lists that are repeated: every single token, every clockwise turn
\* paired with its counter-clockwise turn in both orders, and R U R' U'.
RepeatSeqs ==
  { <<t>> : t \in move_map_keys }
    \cup { << <<X>>, <<X, "'">> >> : X \in {"R", "U", "F", "L", "D", "B"} }
    \cup { << <<X, "'">>, <<X>> >> : X \in {"R", "U", "F", "L", "D", "B"} }
    \cup { << <<"R">>, <<"U">>, <<"R", "'">>, <<"U", "'">> >> }

\* for move in tokens: cube.execute_move(move), one call per step.
RepeatStep ==
  /\ pos < MaxSteps
  /\ faces' = execute_move(faces, seq[(pos % Len(seq)) + 1])
  /\ pos' = pos + 1
  /\ last' = Call("execute_move", faces, seq[(pos % Len(seq)) + 1], <<>>, "none")
  /\ UNCHANGED <<start, hist, KOCIEMBA_AVAILABLE, seq, session, heap>>

InitRepeat ==
  /\ start \in StartStates
  /\ faces = start
  /\ hist = <<>>
  /\ last = NoCall(start)
  /\ KOCIEMBA_AVAILABLE = TRUE
  /\ seq \in RepeatSeqs
  /\ pos = 0
  /\ session = NewSession
  /\ heap = NoHeap

NextRepeat == RepeatStep

SpecRepeat == InitRepeat /\ [][NextRepeat]_vars

(***************************************************************************)
(* The solver front end                                                    *)
(***************************************************************************)
\* solving_moves of simple_solve
solving_moves ==
  << <<"R">>, <<"U">>, <<"R", "'">>, <<"U", "'">>, <<"R">>, <<"U">>, <<"R", "'">>,
     <<"U", "'">>, <<"F">>, <<"R">>, <<"U", "'">>, <<"R", "'">>, <<"F", "'">> >>

\* The values of random.randint(8, 15).
RandInt_8_15 == 8..15

\* simple_solve: solving_moves[:n], n the value random.randint(8, 15) gave.
simple_solve(n) ==
  SubSeq(solving_moves, 1, IF n < Len(solving_moves) THEN n ELSE Len(solving_moves))

\* " ".join(tokens): the form in which the solver library writes a move sequence.
RECURSIVE JoinSpace(_)
JoinSpace(tokens) ==
  IF tokens = <<>> THEN <<>>
  ELSE IF Len(tokens) = 1 THEN tokens[1]
  ELSE tokens[1] \o <<" ">> \o JoinSpace(Tail(tokens))

\* str.split(): the maximal runs of characters other than blanks.
RECURSIVE split_loop(_, _, _)
split_loop(s, word, out) ==
  IF s = <<>> THEN (IF word = <<>> THEN out ELSE Append(out, word))
  ELSE IF Head(s) = " "
       THEN split_loop(Tail(s), <<>>, IF word = <<>> THEN out ELSE Append(out, word))
       ELSE split_loop(Tail(s), Append(word, Head(s)), out)

split(s) == split_loop(s, <<>>, <<>>)

\* Tokens applied one after the other, first token first: g is the cube after the
\* first token, and the remaining tokens are applied to g.
RECURSIVE Replay(_, _)
Replay(f, tokens) ==
  IF tokens = <<>> THEN f
  ELSE CHOOSE r \in {Replay(g, Tail(tokens)) : g \in {execute_move(f, Head(tokens))}} : TRUE

\* The string "Error".
ErrorString == <<"E", "r", "r", "o", "r">>

\* The token sequences of at most n tokens that bring cube f to the solved state.
RECURSIVE SolvingSeqs(_, _)
SolvingSeqs(f, n) ==
  (IF is_solved(f) THEN {<<>>} ELSE {})
    \cup
  (IF n = 0 THEN {}
   ELSE UNION {{<<m>> \o t : t \in SolvingSeqs(g, n - 1)} :
                 <<m, g>> \in {<<k, execute_move(f, k)>> : k \in move_map_keys}})

\* kociemba.solve(cube_string), an external library.  What it may do, for the cube
\* f that cube_string encodes: return the text of a move sequence that solves f
\* (of at most MaxSolutionLen tokens here), return "Error", or raise.
kociemba_solve(f, cube_string) ==
  {[kind |-> "returns", value |-> JoinSpace(t)] : t \in SolvingSeqs(f, MaxSolutionLen)}
    \cup {[kind |-> "returns", value |-> ErrorString],
          [kind |-> "raises", value |-> <<>>]}

\* The try block of solve_with_kociemba, given what kociemba.solve did (out) and
\* the value n random.randint gives if simple_solve is called: the moves returned,
\* the error shown by st.error, and what the solver did.
solve_try(out, n) ==
  IF out.kind = "raises"
  THEN [ret |-> simple_solve(n), err |-> "Kociemba solver error", solver |-> "raises"]
  ELSE IF out.value = ErrorString
  THEN [ret |-> <<>>, err |-> "Invalid cube state - cannot be solved!", solver |-> "error"]
  ELSE [ret |-> IF out.value # <<>> THEN split(out.value) ELSE <<>>,
        err |-> "none", solver |-> "solution"]

\* The results solve_with_kociemba may have on cube f: simple_solve() when the
\* library is not available, else the try block on kociemba.solve(cube_string).
solve_with_kociemba(f, available) ==
  IF ~available
  THEN {[ret |-> simple_solve(n), err |-> "none", solver |-> "unavailable"] :
          n \in RandInt_8_15}
  ELSE {solve_try(out, n) :
          out \in kociemba_solve(f, get_kociemba_string(f, available).value),
          n \in RandInt_8_15}

\* cube.solve_with_kociemba() that also plays the moves it returns on the cube.
SolveReplaying ==
  /\ \E r \in solve_with_kociemba(faces, KOCIEMBA_AVAILABLE) :
       /\ last' = Call("solve", faces, r.solver, r.ret, r.err)
       /\ faces' = Replay(faces, r.ret)
  /\ UNCHANGED <<start, hist, KOCIEMBA_AVAILABLE, seq, pos, session, heap>>

\* cube.solve_with_kociemba()
Solve ==
  /\ \E r \in solve_with_kociemba(faces, KOCIEMBA_AVAILABLE) :
       last' = Call("solve", faces, r.solver, r.ret, r.err)
  /\ UNCHANGED <<faces, start, hist, KOCIEMBA_AVAILABLE, seq, pos, session, heap>>

\* cube.get_kociemba_string()
GetKociembaString ==
  /\ last' = Call("get_kociemba_string", faces, <<>>,
                  get_kociemba_string(faces, KOCIEMBA_AVAILABLE), "none")
  /\ UNCHANGED <<faces, start, hist, KOCIEMBA_AVAILABLE, seq, pos, session, heap>>

\* cube.execute_move(move) with one of the 18 tokens, to bring the cube to a
\* state on which the solver is called.
SolveSetupMove ==
  /\ Len(hist) < SolveDepth
  /\ \E move \in move_map_keys :
       /\ faces' = execute_move(faces, move)
       /\ hist' = Append(hist, move)
       /\ last' = Call("execute_move", faces, move, <<>>, "none")
  /\ UNCHANGED <<start, KOCIEMBA_AVAILABLE, seq, pos, session, heap>>

InitSolve ==
  /\ start \in StartStates
  /\ faces = start
  /\ hist = <<>>
  /\ last = NoCall(start)
  /\ KOCIEMBA_AVAILABLE \in BOOLEAN
  /\ seq = <<>>
  /\ pos = 0
  /\ session = NewSession
  /\ heap = NoHeap

NextSolve == SolveSetupMove \/ Solve \/ GetKociembaString

SpecSolve == InitSolve /\ [][NextSolve]_vars

(***************************************************************************)
(* Writing a face from a string, and the "Update Cube" handler             *)
(***************************************************************************)
\* The two nested loops of set_face_from_string, from cell number k = 3*i + j on.
\* face_string[k] raises IndexError when the string has no character k; the cells
\* written before that stay written.
RECURSIVE set_face_loop(_, _, _, _)
set_face_loop(f, face, face_string, k) ==
  IF k = 9 THEN [faces |-> f, err |-> "none"]
  ELSE IF k >= Len(face_string) THEN [faces |-> f, err |-> "IndexError"]
  ELSE CHOOSE r \in {set_face_loop(g, face, face_string, k + 1) :
                       g \in {Put(f, face, k \div 3, k % 3, face_string[k + 1])}} : TRUE

\* set_face_from_string that reads character j*3 + i for cell (i, j).
set_face_from_string_transposed(f, face, face_string) ==
  IF Len(face_string) # 9 THEN set_face_loop(f, face, face_string, 0)
  ELSE set_face_loop(f, face,
         [k \in 1..9 |-> face_string[3 * ((k - 1) % 3) + ((k - 1) \div 3) + 1]], 0)

\* set_face_from_string(face, face_string)
set_face_from_string(f, face, face_string) == set_face_loop(f, face, face_string, 0)

\* c.upper() for one character; the lower-case letters listed are those the
\* inputs below are made of.
upper_char(c) ==
  CASE c = "w" -> "W" [] c = "y" -> "Y" [] c = "r" -> "R" [] c = "o" -> "O"
    [] c = "b" -> "B" [] c = "g" -> "G" [] c = "x" -> "X" [] OTHER -> c

\* A handler that stores the text as it was typed.
upper_as_typed(str) == str

\* face_input.upper()
upper(str) == [k \in 1..Len(str) |-> upper_char(str[k])]

\* valid_colors = set('WYROBG')
valid_colors == {"W", "Y", "R", "O", "B", "G"}

\* face_names of main(): the order in which the handler goes through the faces.
face_keys == <<"U", "D", "F", "B", "L", "R">>

\* The st.error calls of the validation loop: one per face that fails.
validation_errors(face_inputs) ==
  {<<face, "must have exactly 9 characters">> :
      face \in {x \in FaceNames : Len(face_inputs[x]) # 9}}
    \cup
  {<<face, "contains invalid colors">> :
      face \in {x \in FaceNames :
                  /\ Len(face_inputs[x]) = 9
                  /\ \E k \in 1..9 : upper_char(face_inputs[x][k]) \notin valid_colors}}

\* The second loop of the handler: set_face_from_string for the first n faces.
RECURSIVE apply_faces(_, _, _)
apply_faces(f, face_inputs, n) ==
  IF n = 0 THEN f
  ELSE set_face_from_string(apply_faces(f, face_inputs, n - 1), face_keys[n],
                            upper(face_inputs[face_keys[n]])).faces

\* A handler that writes each face as soon as that face has passed validation.
RECURSIVE apply_valid_faces(_, _, _)
apply_valid_faces(f, face_inputs, n) ==
  IF n = 0 THEN f
  ELSE LET g == apply_valid_faces(f, face_inputs, n - 1)
           x == face_keys[n]
       IN  IF /\ Len(face_inputs[x]) = 9
              /\ \A k \in 1..9 : upper_char(face_inputs[x][k]) \in valid_colors
           THEN set_face_from_string(g, x, upper(face_inputs[x])).faces
           ELSE g

update_cube_eager(f, face_inputs) ==
  [faces |-> apply_valid_faces(f, face_inputs, Len(face_keys)),
   all_valid |-> validation_errors(face_inputs) = {},
   errors |-> validation_errors(face_inputs)]

\* The "Update Cube" handler: validate all six inputs, then write all six faces
\* only if all_valid.
update_cube(f, face_inputs) ==
  LET errors == validation_errors(face_inputs)
      all_valid == errors = {}
  IN  [faces |-> IF all_valid THEN apply_faces(f, face_inputs, Len(face_keys)) ELSE f,
       all_valid |-> all_valid,
       errors |-> errors]

\* Texts typed into a face's input field (max_chars = 9): nine colours, nine
\* colours in lower case, eight characters, a letter that is no colour.
EditStrings ==
  { <<"W", "Y", "R", "O", "B", "G", "W", "Y", "R">>,
    <<"g", "g", "g", "g", "w", "g", "g", "g", "g">>,
    <<"R", "R", "R", "R", "R", "R", "R", "R">>,
    <<"O", "O", "O", "O", "x", "O", "O", "O", "O">> }

\* Strings handed to set_face_from_string by a caller that does not validate.
DecodeStrings ==
  EditStrings \cup
  { <<"B", "B", "B", "B", "B", "B", "B", "B", "B", "B">>,
    <<"Y", "O">>,
    <<>> }

\* The user edits the fields of two faces (the a-th and the b-th field) and presses
\* "Update Cube"; the other fields hold the current face strings (value=current_face).
UpdateCube ==
  /\ Len(hist) < MaxEdits
  /\ \E a \in 1..Len(face_keys), b \in 1..Len(face_keys), s1 \in EditStrings, s2 \in EditStrings :
       /\ a < b
       /\ LET face_inputs ==
             [face \in FaceNames |->
                IF face = face_keys[a] THEN s1
                ELSE IF face = face_keys[b] THEN s2
                ELSE get_face_string(faces, face)]
              r == update_cube(faces, face_inputs)
          IN  /\ faces' = r.faces
              /\ last' = Call("update_cube", faces, face_inputs, r.all_valid, r.errors)
              /\ hist' = Append(hist, <<"update">>)
  /\ UNCHANGED <<start, KOCIEMBA_AVAILABLE, seq, pos, session, heap>>

InitEdit ==
  /\ start \in {SolvedCube, MixedCube}
  /\ faces = start
  /\ hist = <<>>
  /\ last = NoCall(start)
  /\ KOCIEMBA_AVAILABLE = TRUE
  /\ seq = <<>>
  /\ pos = 0
  /\ session = NewSession
  /\ heap = NoHeap

NextEdit == UpdateCube

SpecEdit == InitEdit /\ [][NextEdit]_vars

\* cube.set_face_from_string(face, face_string) called directly.
SetFace ==
  /\ Len(hist) < MaxEdits
  /\ \E face \in FaceNames, face_string \in DecodeStrings :
       LET r == set_face_from_string(faces, face, face_string)
       IN  /\ faces' = r.faces
           /\ last' = Call("set_face_from_string", faces, <<face, face_string>>, <<>>, r.err)
           /\ hist' = Append(hist, <<"set_face">>)
  /\ UNCHANGED <<start, KOCIEMBA_AVAILABLE, seq, pos, session, heap>>

InitDecode ==
  /\ start \in StartStates
  /\ faces = start
  /\ hist = <<>>
  /\ last = NoCall(start)
  /\ KOCIEMBA_AVAILABLE = TRUE
  /\ seq = <<>>
  /\ pos = 0
  /\ session = NewSession
  /\ heap = NoHeap

NextDecode == SetFace

SpecDecode == InitDecode /\ [][NextDecode]_vars

(***************************************************************************)
(* Encoding a cube and decoding the result                                 *)
(***************************************************************************)
\* cube.set_face_from_string(face, cube.get_face_string(face))
RoundTripFace ==
  /\ \E face \in FaceNames :
       LET r == set_face_from_string(faces, face, get_face_string(faces, face))
       IN  /\ faces' = r.faces
           /\ last' = Call("round_trip_face", faces, face, <<>>, r.err)
  /\ UNCHANGED <<start, hist, KOCIEMBA_AVAILABLE, seq, pos, session, heap>>

\* REVERSE_KOCIEMBA_MAP applied to every symbol of a string.
reverse_translate(s) ==
  [k \in 1..Len(s) |->
     IF s[k] \in DOMAIN REVERSE_KOCIEMBA_MAP THEN REVERSE_KOCIEMBA_MAP[s[k]] ELSE s[k]]

\* The 9-symbol blocks n, n+1, ... of a canonical string, translated back and
\* written with set_face_from_string into the faces face_order[n], ...
RECURSIVE decode_blocks(_, _, _)
decode_blocks(f, s, n) ==
  IF n > Len(face_order) THEN f
  ELSE CHOOSE r \in
         {decode_blocks(g, s, n + 1) :
            g \in {set_face_from_string(f, face_order[n],
                      reverse_translate(SubSeq(s, 9 * n - 8, 9 * n))).faces}} : TRUE

\* s = cube.get_kociemba_string(); when s is a string, a new RubiksCube() is
\* filled from it block by block.  The result is the call's return value.
RoundTripCanonical ==
  /\ LET s == get_kociemba_string(faces, KOCIEMBA_AVAILABLE)
     IN  last' = Call("round_trip_canonical", faces, <<>>,
                      IF s.is_none THEN None ELSE Some(decode_blocks(SolvedCube, s.value, 1)),
                      "none")
  /\ UNCHANGED <<faces, start, hist, KOCIEMBA_AVAILABLE, seq, pos, session, heap>>

InitRoundTrip ==
  /\ start = SolvedCube
  /\ faces = start
  /\ hist = <<>>
  /\ last = NoCall(start)
  /\ KOCIEMBA_AVAILABLE \in BOOLEAN
  /\ seq = <<>>
  /\ pos = 0
  /\ session = NewSession
  /\ heap = NoHeap

NextRoundTrip == ExecuteMove \/ RoundTripFace \/ RoundTripCanonical

SpecRoundTrip == InitRoundTrip /\ [][NextRoundTrip]_vars

(***************************************************************************)
(* The buttons of main(): every handler works on st.session_state           *)
(***************************************************************************)
\* What random.choice returns over the 25 rounds of a scramble: the tokens of a
\* short list, taken in turn.
ScramblePatterns ==
  { << <<"R">> >>,
    << <<"U", "2">> >>,
    << <<"R">>, <<"U">> >>,
    << <<"F", "'">>, <<"L", "2">>, <<"D">>, <<"B">> >> }

SessionDraws ==
  { [k \in 1..ScrambleCount |-> p[((k - 1) % Len(p)) + 1]] : p \in ScramblePatterns }

\* "Scramble": a new RubiksCube(), scramble(25) on it, the solution forgotten.
ScrambleButton ==
  /\ Len(hist) < MaxMoves
  /\ \E draws \in SessionDraws :
       LET r == scramble_loop(SolvedCube, <<>>, draws, 1)
       IN  /\ faces' = r.faces
           /\ session' = [session EXCEPT !.scramble_moves = r.scramble_moves,
                                         !.solution_moves = <<>>]
           /\ last' = Call("scramble_button", faces, ScrambleCount, r.scramble_moves, "none")
  /\ hist' = Append(hist, <<"scramble">>)
  /\ UNCHANGED <<start, KOCIEMBA_AVAILABLE, seq, pos, heap>>

\* "Reset": a new RubiksCube(), both move lists emptied.
ResetButton ==
  /\ Len(hist) < MaxMoves
  /\ faces' = SolvedCube
  /\ session' = [session EXCEPT !.scramble_moves = <<>>, !.solution_moves = <<>>]
  /\ last' = Call("reset_button", faces, <<>>, <<>>, "none")
  /\ hist' = Append(hist, <<"reset">>)
  /\ UNCHANGED <<start, KOCIEMBA_AVAILABLE, seq, pos, heap>>

\* "SOLVE CUBE": solution_moves = cube.solve_with_kociemba()
SolveButton ==
  /\ Len(hist) < MaxMoves
  /\ \E r \in solve_with_kociemba(faces, KOCIEMBA_AVAILABLE) :
       /\ session' = [session EXCEPT !.solution_moves = r.ret]
       /\ last' = Call("solve_button", faces, r.solver, r.ret, r.err)
  /\ hist' = Append(hist, <<"solve">>)
  /\ UNCHANGED <<faces, start, KOCIEMBA_AVAILABLE, seq, pos, heap>>

\* "Update Cube" after the user has edited the field of one face; the other five
\* fields hold the current face strings.  The handler assigns nothing but the
\* cells of the cube.
UpdateCubeButton ==
  /\ Len(hist) < MaxMoves
  /\ \E a \in 1..Len(face_keys), s1 \in EditStrings :
       LET face_inputs ==
             [face \in FaceNames |->
                IF face = face_keys[a] THEN s1 ELSE get_face_string(faces, face)]
           r == update_cube(faces, face_inputs)
       IN  /\ faces' = r.faces
           /\ last' = Call("update_cube_button", faces, face_inputs, r.all_valid, r.errors)
  /\ hist' = Append(hist, <<"update">>)
  /\ UNCHANGED <<start, KOCIEMBA_AVAILABLE, seq, pos, session, heap>>

\* The session as main() creates it on the first run.
InitSession ==
  /\ start = SolvedCube
  /\ faces = start
  /\ hist = <<>>
  /\ last = NoCall(start)
  /\ KOCIEMBA_AVAILABLE \in BOOLEAN
  /\ seq = <<>>
  /\ pos = 0
  /\ session = NewSession
  /\ heap = NoHeap

\* The session cube under resets, scrambles, manual edits and single moves.
NextCells == ResetButton \/ ScrambleButton \/ UpdateCubeButton \/ ExecuteMove

SpecCells == InitSession /\ [][NextCells]_vars

\* The four buttons that assign to the session.
NextSession == ScrambleButton \/ ResetButton \/ SolveButton \/ UpdateCubeButton

SpecSession == InitSession /\ [][NextSession]_vars

(***************************************************************************)
(* "Animate Solution": the cubes as Python objects.  A row is a list of     *)
(* three cells, a grid a list of three rows, cube.faces maps a face to its  *)
(* grid.  heap.rows[r] is the content of row object r, heap.grids[g][i] the *)
(* row object at index i of grid object g, heap.cube[c][face] the grid      *)
(* object that cube c ("live": st.session_state.cube, "temp": temp_cube)    *)
(* has for the face.  A new list is a new index.  During the animation      *)
(* `faces` keeps the cells the session cube had when the button was pressed.*)
(***************************************************************************)
\* The lists of a cube object c that is built from cell values f, every row and
\* every grid a list of its own (as __init__ builds them and the moves keep them).
RECURSIVE alloc_faces(_, _, _, _)
alloc_faces(h, c, f, n) ==
  IF n = 0 THEN h
  ELSE LET g == alloc_faces(h, c, f, n - 1)
           face == face_keys[n]
           r == Len(g.rows)
       IN  [g EXCEPT !.rows = @ \o <<f[face][0], f[face][1], f[face][2]>>,
                     !.grids = Append(@, [i \in Idx |-> r + 1 + i]),
                     !.cube[c] = IF @ = <<>> THEN (face :> (Len(g.grids) + 1))
                                 ELSE (face :> (Len(g.grids) + 1)) @@ @]

\* cube c = RubiksCube()
new_cube_on(h, c) ==
  alloc_faces([h EXCEPT !.cube[c] = <<>>], c, SolvedCube, Len(face_keys))

\* The cell values of cube c.
Deref(h, c) ==
  [face \in FaceNames |-> [i \in Idx |-> h.rows[h.grids[h.cube[c][face]][i]]]]

\* c.faces[face][i][j]
get_cell_on(h, c, face, i, j) == h.rows[h.grids[h.cube[c][face]][i]][j]

\* c.faces[face][i][j] = v: writes into the row object.
set_cell_on(h, c, face, i, j, v) ==
  [h EXCEPT !.rows[h.grids[h.cube[c][face]][i]][j] = v]

\* c.faces[face][i][:]: the content of the row, for a new list.
row_copy_on(h, c, face, i) == h.rows[h.grids[h.cube[c][face]][i]]

\* c.faces[face][i] = row, row a new list: writes into the grid object.
set_row_on(h, c, face, i, row) ==
  [h EXCEPT !.rows = Append(@, row),
            !.grids[h.cube[c][face]][i] = Len(h.rows) + 1]

\* rotate_face_clockwise on cube c: c.faces[face] becomes a new grid of new rows.
rotate_face_clockwise_on(h, c, face) ==
  LET r == Len(h.rows)
      new == [i \in Idx |-> [j \in Idx |-> get_cell_on(h, c, face, 2 - j, i)]]
  IN  [h EXCEPT !.rows = @ \o <<new[0], new[1], new[2]>>,
                !.grids = Append(@, [i \in Idx |-> r + 1 + i]),
                !.cube[c][face] = Len(h.grids) + 1]

move_R_on(h, c) ==
  LET g == rotate_face_clockwise_on(h, c, "R")
      temp == [i \in Idx |-> get_cell_on(g, c, "U", i, 2)]
      body(x, i) ==
        LET h1 == set_cell_on(x, c, "U", i, 2, get_cell_on(x, c, "F", i, 2))
            h2 == set_cell_on(h1, c, "F", i, 2, get_cell_on(h1, c, "D", i, 2))
            h3 == set_cell_on(h2, c, "D", i, 2, get_cell_on(h2, c, "B", 2 - i, 0))
        IN  set_cell_on(h3, c, "B", 2 - i, 0, temp[i])
  IN  body(body(body(g, 0), 1), 2)

move_U_on(h, c) ==
  LET g == rotate_face_clockwise_on(h, c, "U")
      temp == row_copy_on(g, c, "F", 0)
      h1 == set_row_on(g, c, "F", 0, row_copy_on(g, c, "R", 0))
      h2 == set_row_on(h1, c, "R", 0, row_copy_on(h1, c, "B", 0))
      h3 == set_row_on(h2, c, "B", 0, row_copy_on(h2, c, "L", 0))
  IN  set_row_on(h3, c, "L", 0, temp)

move_F_on(h, c) ==
  LET g == rotate_face_clockwise_on(h, c, "F")
      temp == row_copy_on(g, c, "U", 2)
      body(x, i) ==
        LET h1 == set_cell_on(x, c, "U", 2, i, get_cell_on(x, c, "L", 2 - i, 2))
            h2 == set_cell_on(h1, c, "L", 2 - i, 2, get_cell_on(h1, c, "D", 0, 2 - i))
            h3 == set_cell_on(h2, c, "D", 0, 2 - i, get_cell_on(h2, c, "R", i, 0))
        IN  set_cell_on(h3, c, "R", i, 0, temp[i])
  IN  body(body(body(g, 0), 1), 2)

move_L_on(h, c) ==
  LET g == rotate_face_clockwise_on(h, c, "L")
      temp == [i \in Idx |-> get_cell_on(g, c, "U", i, 0)]
      body(x, i) ==
        LET h1 == set_cell_on(x, c, "U", i, 0, get_cell_on(x, c, "B", 2 - i, 2))
            h2 == set_cell_on(h1, c, "B", 2 - i, 2, get_cell_on(h1, c, "D", i, 0))
            h3 == set_cell_on(h2, c, "D", i, 0, get_cell_on(h2, c, "F", i, 0))
        IN  set_cell_on(h3, c, "F", i, 0, temp[i])
  IN  body(body(body(g, 0), 1), 2)

move_D_on(h, c) ==
  LET g == rotate_face_clockwise_on(h, c, "D")
      temp == row_copy_on(g, c, "F", 2)
      h1 == set_row_on(g, c, "F", 2, row_copy_on(g, c, "L", 2))
      h2 == set_row_on(h1, c, "L", 2, row_copy_on(h1, c, "B", 2))
      h3 == set_row_on(h2, c, "B", 2, row_copy_on(h2, c, "R", 2))
  IN  set_row_on(h3, c, "R", 2, temp)

move_B_on(h, c) ==
  LET g == rotate_face_clockwise_on(h, c, "B")
      temp == row_copy_on(g, c, "U", 0)
      body(x, i) ==
        LET h1 == set_cell_on(x, c, "U", 0, i, get_cell_on(x, c, "R", i, 2))
            h2 == set_cell_on(h1, c, "R", i, 2, get_cell_on(h1, c, "D", 2, 2 - i))
            h3 == set_cell_on(h2, c, "D", 2, 2 - i, get_cell_on(h2, c, "L", 2 - i, 0))
        IN  set_cell_on(h3, c, "L", 2 - i, 0, temp[i])
  IN  body(body(body(g, 0), 1), 2)

\* The clockwise move of face X on cube c.
move_on(h, c, X) ==
  CASE X = "R" -> move_R_on(h, c)
    [] X = "U" -> move_U_on(h, c)
    [] X = "F" -> move_F_on(h, c)
    [] X = "L" -> move_L_on(h, c)
    [] X = "D" -> move_D_on(h, c)
    [] X = "B" -> move_B_on(h, c)

\* The move called n times in a row on cube c.
RECURSIVE times_on(_, _, _, _)
times_on(h, c, X, n) ==
  IF n = 0 THEN h
  ELSE CHOOSE r \in {times_on(g, c, X, n - 1) : g \in {move_on(h, c, X)}} : TRUE

\* c.execute_move(move): X once, X' three times, X2 twice, anything else nothing.
execute_move_on(h, c, move) ==
  IF move \notin move_map_keys THEN h
  ELSE IF Len(move) = 1 THEN times_on(h, c, move[1], 1)
  ELSE IF move[2] = "'" THEN times_on(h, c, move[1], 3)
  ELSE times_on(h, c, move[1], 2)

\* A copy loop that keeps the rows: temp_cube.faces[face] = [row for row in ...].
RECURSIVE snapshot_loop_shared_rows(_, _)
snapshot_loop_shared_rows(h, n) ==
  IF n = 0 THEN h
  ELSE LET g == snapshot_loop_shared_rows(h, n - 1)
           face == face_keys[n]
       IN  [g EXCEPT !.grids = Append(@, g.grids[g.cube["live"][face]]),
                     !.cube["temp"][face] = Len(g.grids) + 1]

\* for face in temp_cube.faces:
\*     temp_cube.faces[face] = [row[:] for row in st.session_state.cube.faces[face]]
\* for the first n faces: a new grid of three new rows per face.
RECURSIVE snapshot_loop(_, _)
snapshot_loop(h, n) ==
  IF n = 0 THEN h
  ELSE LET g == snapshot_loop(h, n - 1)
           face == face_keys[n]
           r == Len(g.rows)
       IN  [g EXCEPT !.rows = @ \o <<row_copy_on(g, "live", face, 0),
                                     row_copy_on(g, "live", face, 1),
                                     row_copy_on(g, "live", face, 2)>>,
                     !.grids = Append(@, [i \in Idx |-> r + 1 + i]),
                     !.cube["temp"][face] = Len(g.grids) + 1]

\* The button is on the page only while solution_moves is not empty.  Pressing
\* it makes temp_cube and copies the session cube into it; the loop over
\* solution_moves (seq) starts at its first move.
AnimateButton ==
  /\ session.solution_moves # <<>>
  /\ heap.cube["temp"] = <<>>
  /\ heap' = snapshot_loop(new_cube_on(heap, "temp"), Len(face_keys))
  /\ seq' = session.solution_moves
  /\ pos' = 0
  /\ last' = Call("animate_button", faces, session.solution_moves, <<>>, "none")
  /\ UNCHANGED <<faces, start, hist, KOCIEMBA_AVAILABLE, session>>

\* One round of the loop: temp_cube.execute_move(move), display, sleep.
AnimateStep ==
  /\ heap.cube["temp"] # <<>>
  /\ pos < Len(seq)
  /\ heap' = execute_move_on(heap, "temp", seq[pos + 1])
  /\ pos' = pos + 1
  /\ last' = Call("execute_move", Deref(heap, "temp"), seq[pos + 1], <<>>, "none")
  /\ UNCHANGED <<faces, start, hist, KOCIEMBA_AVAILABLE, seq, session>>

\* Move lists in solution_moves: what simple_solve returns, every single token,
\* and two lists that turn all six faces.
AnimateSolutions ==
  {simple_solve(n) : n \in RandInt_8_15}
    \cup {<<t>> : t \in move_map_keys}
    \cup { << <<"D">>, <<"L", "'">>, <<"B", "2">>, <<"U">> >>,
           << <<"B">>, <<"L">>, <<"D", "'">>, <<"F", "2">>, <<"R">>, <<"U", "2">> >> }

\* Session cubes: new, scrambled, and edited by hand.
AnimateCubes ==
  {SolvedCube, MixedCube}
    \cup {scramble_loop(SolvedCube, <<>>, draws, 1).faces : draws \in SessionDraws}

\* A session with a cube and a stored solution, before the button is pressed.
InitAnimate ==
  /\ start \in AnimateCubes
  /\ faces = start
  /\ hist = <<>>
  /\ last = NoCall(start)
  /\ KOCIEMBA_AVAILABLE = TRUE
  /\ seq = <<>>
  /\ pos = 0
  /\ session \in {[NewSession EXCEPT !.solution_moves = m] : m \in AnimateSolutions}
  /\ heap = alloc_faces(NoHeap, "live", start, Len(face_keys))

NextAnimate == AnimateButton \/ AnimateStep

SpecAnimate == InitAnimate /\ [][NextAnimate]_vars

(***************************************************************************)
(* Properties                                                              *)
(***************************************************************************)
\* The faces turned by the tokens.
TurnFaces == {"R", "U", "F", "L", "D", "B"}

\* C1: a clockwise turn followed by the counter-clockwise turn of the same face,
\* and the counter-clockwise turn followed by the clockwise one, leave every cell
\* of the six faces as it was, from whatever cube the two moves started.
C1_InverseLaw ==
  \A X \in TurnFaces :
    (hist = << <<X>>, <<X, "'">> >> \/ hist = << <<X, "'">>, <<X>> >>) => faces = start

C1_Witness ==
  /\ hist = << <<"R">>, <<"R", "'">> >>
  /\ start = LabelCube
  /\ last.pre # start
  /\ faces = start

\* The number of cells of the cube that hold colour c.
ColorCount(f, c) ==
  Cardinality({cell \in FaceNames \X Idx \X Idx : f[cell[1]][cell[2]][cell[3]] = c})

\* C4: from the solved cube, after any sequence of move tokens (given one by one
\* or drawn by scramble), each of the six colours is on exactly 9 cells.
C4_ColorCount ==
  start = SolvedCube => \A c \in COLORS : ColorCount(faces, c) = 9

C4_Witness ==
  /\ start = SolvedCube
  /\ Len(hist) = MaxMoves
  /\ last.op = "scramble"
  /\ ~is_solved(faces)
  /\ \A c \in COLORS : ColorCount(faces, c) = 9

\* C7: scramble(n) returns exactly n tokens of the 18-token alphabet, and the cube
\* after the call is the cube before it with the returned tokens applied in order;
\* scramble(0) returns the empty sequence and leaves the cube as it was.
C7_Scramble ==
  last.op = "scramble" =>
    /\ Len(last.ret) = last.arg
    /\ \A k \in 1..Len(last.ret) : last.ret[k] \in move_map_keys
    /\ faces = Replay(last.pre, last.ret)
    /\ last.arg = 0 => (last.ret = <<>> /\ faces = last.pre)

C7_Witness ==
  /\ last.op = "scramble"
  /\ last.arg = 2
  /\ last.ret[1] # last.ret[2]
  /\ faces # last.pre


\* C2: the same clockwise turn applied four times, and the same double turn
\* applied twice, give back exactly the cube they started from.
C2_OrderLaw ==
  \A X \in TurnFaces :
    /\ (seq = << <<X>> >> /\ pos = 4) => faces = start
    /\ (seq = << <<X, "2">> >> /\ pos = 2) => faces = start

C2_Witness ==
  /\ seq = << <<"F">> >>
  /\ pos = 4
  /\ start = LabelCube
  /\ faces = start
  /\ last.pre # start

\* C3: from the solved cube, R U R' U' applied once gives a cube that is not
\* solved, and applied six times (24 calls of execute_move) gives the solved cube.
C3_GoldenFixture ==
  (seq = << <<"R">>, <<"U">>, <<"R", "'">>, <<"U", "'">> >> /\ start = SolvedCube) =>
    /\ pos = 4 => ~is_solved(faces)
    /\ pos = 24 => (faces = SolvedCube /\ is_solved(faces))

C3_Witness ==
  /\ seq = << <<"R">>, <<"U">>, <<"R", "'">>, <<"U", "'">> >>
  /\ start = SolvedCube
  /\ pos = 24
  /\ faces = SolvedCube


\* C5 (as claimed): every non-empty move sequence solve() returns brings the cube
\* it was called on to the solved state when replayed, and when the solver gives
\* no such sequence (unavailable, "Error", exception) solve() returns no moves and
\* reports an error.
C5_SolveSound ==
  last.op = "solve" =>
    /\ last.ret # <<>> => is_solved(Replay(last.pre, last.ret))
    /\ last.arg # "solution" => (last.ret = <<>> /\ last.err # "none")

\* C6: solve() leaves all 54 cells as they were, whatever the solver did.
C6_SolveReadOnly ==
  last.op = "solve" => faces = last.pre

C6_Witness ==
  /\ last.op = "solve"
  /\ last.arg = "solution"
  /\ last.ret # <<>>
  /\ ~is_solved(last.pre)
  /\ faces = last.pre

\* The translation C10 states: W->U, R->R, G->F, Y->D, O->L, B->B, others unchanged.
C10_Symbol(c) ==
  CASE c = "W" -> "U" [] c = "R" -> "R" [] c = "G" -> "F"
    [] c = "Y" -> "D" [] c = "O" -> "L" [] c = "B" -> "B" [] OTHER -> c

\* The string C10 describes for cube f: 54 symbols, faces Up, Right, Front, Down,
\* Left, Back, each row-major, each symbol translated.
C10_Describes(f, str) ==
  /\ Len(str) = 54
  /\ \A p \in 0..5 : \A i \in Idx : \A j \in Idx :
       str[9 * p + 3 * i + j + 1] =
         C10_Symbol(f[<<"U", "R", "F", "D", "L", "B">>[p + 1]][i][j])

\* C10 (as claimed): for every cube, get_kociemba_string returns the 54-symbol string.
C10_EncodeAlways ==
  last.op = "get_kociemba_string" =>
    (~last.ret.is_none /\ C10_Describes(last.pre, last.ret.value))

\* C10 (amended): when the solver library is available, get_kociemba_string returns
\* the 54-symbol string; when it is not, get_kociemba_string returns None.
C10_EncodeWhenAvailable ==
  last.op = "get_kociemba_string" =>
    IF KOCIEMBA_AVAILABLE
    THEN ~last.ret.is_none /\ C10_Describes(last.pre, last.ret.value)
    ELSE last.ret = None

C10_Witness ==
  /\ last.op = "get_kociemba_string"
  /\ KOCIEMBA_AVAILABLE
  /\ start = LabelCube
  /\ hist # <<>>
  /\ Len(last.ret.value) = 54


\* A submitted face string that fails validation: length other than 9, or a
\* character that is none of W, Y, R, O, B, G in either case.
C8_Invalid(str) ==
  \/ Len(str) # 9
  \/ \E k \in 1..Len(str) :
       str[k] \notin {"W", "Y", "R", "O", "B", "G", "w", "y", "r", "o", "b", "g"}

\* The upper-case colour of a valid input character.
C8_Colour(c) ==
  CASE c \in {"W", "w"} -> "W" [] c \in {"Y", "y"} -> "Y" [] c \in {"R", "r"} -> "R"
    [] c \in {"O", "o"} -> "O" [] c \in {"B", "b"} -> "B" [] c \in {"G", "g"} -> "G"

\* C8: if any of the six submitted face strings is invalid, no cell of any face
\* changes; if all six are valid, every face is overwritten with its string.
C8_AllOrNothing ==
  last.op = "update_cube" =>
    IF \E face \in FaceNames : C8_Invalid(last.arg[face])
    THEN faces = last.pre
    ELSE \A face \in FaceNames : \A i \in Idx : \A j \in Idx :
           faces[face][i][j] = C8_Colour(last.arg[face][3 * i + j + 1])

\* One submitted face is invalid and another, valid one differs from the cube.
C8_Witness ==
  /\ last.op = "update_cube"
  /\ \E face \in FaceNames : Len(last.arg[face]) = 8
  /\ \E face \in FaceNames :
       /\ ~C8_Invalid(last.arg[face])
       /\ last.arg[face] # get_face_string(last.pre, face)
  /\ faces = last.pre

\* C9 (as claimed): set_face_from_string fails for every string whose length is
\* not 9 and then writes no cell; for length 9 it writes cell (i,j) with s[3*i+j].
C9_DecodeChecked ==
  last.op = "set_face_from_string" =>
    IF Len(last.arg[2]) # 9
    THEN last.err # "none" /\ faces = last.pre
    ELSE /\ last.err = "none"
         /\ \A i \in Idx : \A j \in Idx :
              faces[last.arg[1]][i][j] = last.arg[2][3 * i + j + 1]


\* C11: a new cube is solved; the solved cube after any one of the 18 tokens is
\* not solved; the solved cube after R four times is solved again.
C11_SolvedPredicate ==
  start = SolvedCube =>
    /\ pos = 0 => is_solved(faces)
    /\ (pos = 1 /\ Len(seq) = 1) => ~is_solved(faces)
    /\ (pos = 4 /\ seq = << <<"R">> >>) => is_solved(faces)

C11_Witness ==
  /\ start = SolvedCube
  /\ seq = << <<"R">> >>
  /\ pos = 4
  /\ ~is_solved(last.pre)
  /\ is_solved(faces)

\* The 18 move tokens.
Alphabet ==
  {<<X>> : X \in TurnFaces} \cup {<<X, "'">> : X \in TurnFaces}
    \cup {<<X, "2">> : X \in TurnFaces}

\* C13: execute_move with a string that is none of the 18 tokens changes no cell
\* and raises nothing.
C13_UnknownTokenNoOp ==
  (last.op = "execute_move" /\ last.arg \notin Alphabet) =>
    (faces = last.pre /\ last.err = "none")

C13_Witness ==
  /\ last.op = "execute_move"
  /\ last.arg = <<"R", "3">>
  /\ hist = << <<"U">>, <<"R", "3">> >>
  /\ faces = last.pre

\* C15: for every face X and every cube, execute_move(X2) gives the cube that two
\* execute_move(X) give, and execute_move(X') the cube that three execute_move(X) give.
C15_DispatchEquivalence ==
  last.op = "execute_move" =>
    \A X \in TurnFaces :
      /\ last.arg = <<X, "2">> =>
           faces = execute_move(execute_move(last.pre, <<X>>), <<X>>)
      /\ last.arg = <<X, "'">> =>
           faces = execute_move(execute_move(execute_move(last.pre, <<X>>), <<X>>), <<X>>)

C15_Witness ==
  /\ last.op = "execute_move"
  /\ last.arg = <<"F", "'">>
  /\ start = LabelCube
  /\ Len(hist) = 2
  /\ faces # last.pre

\* The cells a turn of face X may change: the 8 cells of X around its centre and
\* the 12 cells of the four neighbouring faces that border X.
C16_Ring(X) == {<<X, i, j>> : i \in Idx, j \in Idx} \ {<<X, 1, 1>>}

C16_Border(X) ==
  CASE X = "R" -> {<<"U", i, 2>> : i \in Idx} \cup {<<"F", i, 2>> : i \in Idx}
                    \cup {<<"D", i, 2>> : i \in Idx} \cup {<<"B", i, 0>> : i \in Idx}
    [] X = "L" -> {<<"U", i, 0>> : i \in Idx} \cup {<<"F", i, 0>> : i \in Idx}
                    \cup {<<"D", i, 0>> : i \in Idx} \cup {<<"B", i, 2>> : i \in Idx}
    [] X = "U" -> {<<"F", 0, j>> : j \in Idx} \cup {<<"R", 0, j>> : j \in Idx}
                    \cup {<<"B", 0, j>> : j \in Idx} \cup {<<"L", 0, j>> : j \in Idx}
    [] X = "D" -> {<<"F", 2, j>> : j \in Idx} \cup {<<"R", 2, j>> : j \in Idx}
                    \cup {<<"B", 2, j>> : j \in Idx} \cup {<<"L", 2, j>> : j \in Idx}
    [] X = "F" -> {<<"U", 2, j>> : j \in Idx} \cup {<<"D", 0, j>> : j \in Idx}
                    \cup {<<"L", i, 2>> : i \in Idx} \cup {<<"R", i, 0>> : i \in Idx}
    [] X = "B" -> {<<"U", 0, j>> : j \in Idx} \cup {<<"D", 2, j>> : j \in Idx}
                    \cup {<<"L", i, 0>> : i \in Idx} \cup {<<"R", i, 2>> : i \in Idx}

\* C16: a turn of face X (X, X' or X2) leaves every cell unchanged that is neither
\* one of the 8 outer cells of X nor one of the 12 bordering cells: the opposite
\* face, every centre, and the rest of the neighbouring faces.
C16_NoLeak ==
  (last.op = "execute_move" /\ last.arg \in Alphabet) =>
    LET X == last.arg[1]
    IN  /\ Cardinality(C16_Ring(X) \cup C16_Border(X)) = 20
        /\ \A cell \in (FaceNames \X Idx \X Idx) \ (C16_Ring(X) \cup C16_Border(X)) :
             faces[cell[1]][cell[2]][cell[3]] = last.pre[cell[1]][cell[2]][cell[3]]

\* A turn of the Back face of the cube of 54 different cells changes all 20 cells.
C16_Witness ==
  /\ last.op = "execute_move"
  /\ last.arg = <<"B">>
  /\ last.pre = LabelCube
  /\ \A cell \in C16_Ring("B") \cup C16_Border("B") :
       faces[cell[1]][cell[2]][cell[3]] # last.pre[cell[1]][cell[2]][cell[3]]


\* C18: rotate_face_clockwise(X) moves the content of cell (r, c) of face X to
\* cell (c, 2-r), so the old top row is the new right column read downwards and
\* the centre stays, and it changes no cell of the other five faces.
C18_FaceRotation ==
  last.op = "rotate_face_clockwise" =>
    LET X == last.arg
    IN  /\ \A r \in Idx : \A c \in Idx : faces[X][c][2 - r] = last.pre[X][r][c]
        /\ \A c \in Idx : faces[X][c][2] = last.pre[X][0][c]
        /\ faces[X][1][1] = last.pre[X][1][1]
        /\ \A Y \in FaceNames \ {X} : faces[Y] = last.pre[Y]

C18_Witness ==
  /\ last.op = "rotate_face_clockwise"
  /\ last.arg = "F"
  /\ last.pre = LabelCube
  /\ faces["F"] # last.pre["F"]
  /\ <<faces["F"][0][2], faces["F"][1][2], faces["F"][2][2]>>
       = <<last.pre["F"][0][0], last.pre["F"][0][1], last.pre["F"][0][2]>>

\* The face letters of the canonical order, one per 9-symbol block.
C19_BlockLetters == <<"U", "R", "F", "D", "L", "B">>

\* C19: from the solved cube and after moves, the canonical string has at the
\* centre of each 9-symbol block that block's face letter (U, R, F, D, L, B), and
\* the solved cube encodes to 9 U, 9 R, 9 F, 9 D, 9 L, 9 B.
C19_CentreSymbols ==
  (last.op = "get_kociemba_string" /\ start = SolvedCube /\ ~last.ret.is_none) =>
    /\ \A b \in 1..6 : last.ret.value[9 * (b - 1) + 5] = C19_BlockLetters[b]
    /\ faces = SolvedCube =>
         last.ret.value = [k \in 1..54 |-> C19_BlockLetters[((k - 1) \div 9) + 1]]


\* The colour map and its reverse are bijections between the six colours and the
\* six face letters, each the inverse of the other.
C12_Bijection ==
  /\ DOMAIN KOCIEMBA_COLOR_MAP = COLORS
  /\ DOMAIN REVERSE_KOCIEMBA_MAP = {"U", "R", "F", "D", "L", "B"}
  /\ \A c \in COLORS : REVERSE_KOCIEMBA_MAP[KOCIEMBA_COLOR_MAP[c]] = c
  /\ \A x \in DOMAIN REVERSE_KOCIEMBA_MAP : KOCIEMBA_COLOR_MAP[REVERSE_KOCIEMBA_MAP[x]] = x

\* Decoding a face from its own encoding raises nothing and changes no cell.
C12_FaceRoundTrip ==
  last.op = "round_trip_face" => (faces = last.pre /\ last.err = "none")

\* C12 as stated: in every state reached by moves from the solved cube, decoding
\* a face from its own encoding leaves the cube unchanged, and the canonical
\* string translated back and decoded gives the six grids of the cube; the two
\* maps are inverse bijections.
C12_RoundTripAlways ==
  /\ C12_Bijection
  /\ C12_FaceRoundTrip
  /\ last.op = "round_trip_canonical" => last.ret = Some(last.pre)

\* C12, amended: the canonical round trip gives the grids whenever there is a
\* canonical string, that is when the solver library is available; otherwise
\* get_kociemba_string returns None and there is nothing to decode.
C12_RoundTrip ==
  /\ C12_Bijection
  /\ C12_FaceRoundTrip
  /\ (last.op = "round_trip_canonical" /\ KOCIEMBA_AVAILABLE) => last.ret = Some(last.pre)
  /\ (last.op = "round_trip_canonical" /\ ~KOCIEMBA_AVAILABLE) => last.ret = None

C12_Witness ==
  /\ last.op = "round_trip_canonical"
  /\ KOCIEMBA_AVAILABLE
  /\ hist = << <<"R">>, <<"U">> >>
  /\ last.pre = faces
  /\ last.ret = Some(faces)
  /\ faces # SolvedCube


\* C14: in every state of the session cube, under resets, scrambles, the 18 move
\* tokens and manual edits, each of the 54 cells holds one of W, Y, R, O, B, G;
\* an edit that passes validation stores the upper-case form of what was typed.
C14_CellsAreColors ==
  /\ \A face \in FaceNames : \A i \in Idx : \A j \in Idx : faces[face][i][j] \in COLORS
  /\ (last.op = "update_cube_button" /\ last.ret) =>
       \A face \in FaceNames : get_face_string(faces, face) = upper(last.arg[face])

\* A lower-case text was typed for the Left face of a scrambled cube and stored.
C14_Witness ==
  /\ last.op = "update_cube_button"
  /\ last.ret
  /\ last.arg["L"] = <<"g", "g", "g", "g", "w", "g", "g", "g", "g">>
  /\ hist = << <<"scramble">>, <<"update">> >>
  /\ get_face_string(faces, "L") = <<"G", "G", "G", "G", "W", "G", "G", "G", "G">>
  /\ faces # last.pre

\* C20: a step that changes the session cube leaves solution_moves empty, so a
\* non-empty solution_moves was computed on the cube the session holds.
C20_NoStaleSolution ==
  [][faces' # faces => session'.solution_moves = <<>>]_vars


\* The row objects and the grid objects of cube c.
C17_Grids(c) == {heap.cube[c][face] : face \in FaceNames}

C17_Rows(c) == {heap.grids[g][i] : g \in C17_Grids(c), i \in Idx}

\* C17: the animation plays the moves on a copy that has no grid and no row in
\* common with the session cube, and after any number of replayed moves every
\* cell of the session cube is what it was.
C17_ReplayIsolation ==
  /\ Deref(heap, "live") = faces
  /\ heap.cube["temp"] # <<>> =>
       /\ C17_Grids("live") \cap C17_Grids("temp") = {}
       /\ C17_Rows("live") \cap C17_Rows("temp") = {}

\* The whole list of simple_solve has been replayed on the copy of a scrambled
\* cube: the copy is where the moves lead, the session cube where it was.
C17_Witness ==
  /\ heap.cube["temp"] # <<>>
  /\ seq = solving_moves
  /\ pos = Len(seq)
  /\ faces # SolvedCube
  /\ Deref(heap, "live") = faces
  /\ Deref(heap, "temp") = Replay(faces, seq)
  /\ Deref(heap, "temp") # faces


\* The opposite-face pairs, in both orders.
C21_Opposite ==
  { <<"R", "L">>, <<"L", "R">>, <<"U", "D">>, <<"D", "U">>, <<"F", "B">>, <<"B", "F">> }

\* The cells in which cube g differs from cube f.
C21_Changed(f, g) ==
  {cell \in FaceNames \X Idx \X Idx :
     g[cell[1]][cell[2]][cell[3]] # f[cell[1]][cell[2]][cell[3]]}

\* Two execute_move calls were made, clockwise turns of two opposite faces.
C21_Case ==
  /\ Len(hist) = 2
  /\ last.op = "execute_move"
  /\ Len(hist[1]) = 1
  /\ Len(hist[2]) = 1
  /\ <<hist[1][1], hist[2][1]>> \in C21_Opposite

\* C21: for each pair of opposite faces and every cube, the two clockwise turns
\* give the same cube in either order, and the cells the one changes are none of
\* the cells the other changes.
C21_OppositeCommute ==
  C21_Case =>
    /\ faces = execute_move(execute_move(start, hist[2]), hist[1])
    /\ C21_Changed(start, last.pre) \cap C21_Changed(last.pre, faces) = {}

\* U then D on the cube of 54 different cells: each turn changes its 20 cells.
C21_Witness ==
  /\ C21_Case
  /\ start = LabelCube
  /\ hist = << <<"U">>, <<"D">> >>
  /\ Cardinality(C21_Changed(start, last.pre)) = 20
  /\ Cardinality(C21_Changed(last.pre, faces)) = 20
  /\ faces = move_U(move_D(start))

====
